---- MODULE Spec2Model ----
(***************************************************************************)
(* Model of the feature-engineering pipeline of src/features.py and the    *)
(* loader of src/ingest.py.                                                *)
(*                                                                         *)
(* A pandas DataFrame is a record [columns, rows]: `columns` is the ordered*)
(* sequence of column names and `rows` the sequence of rows in positional  *)
(* order; a row is a function from the column names to cells.              *)
(*                                                                         *)
(* A column name is a sequence of tokens (<<"trade_", "value">> is         *)
(* "trade_value"): Python's `needle in name` over characters is the        *)
(* contiguous-subsequence test over tokens for the vocabulary used here.   *)
(*                                                                         *)
(* A cell is a record [k, n, d, s]: k is the kind ("num", "date", "str",   *)
(* "cat", "bool", "root", "na"), n/d an exact rational (floats are modelled*)
(* as exact rationals), s the text.  "na" stands for NaN / NaT / pd.NA.    *)
(* A "root" cell is the real number sign(n) * sqrt(|n| / d), the shape of  *)
(* a z-score (difference over sample standard deviation).                  *)
(***************************************************************************)
EXTENDS Integers, Sequences, FiniteSets, TLC

VARIABLES
    pc,       \* "idle", "returned" (a single call has ended), or the place
              \* build_feature_matrix has reached
    fn,       \* the function called
    arg,      \* the table passed to it, as it was at the call
    result,   \* the call's outcome (see Return and Raise)
    raw,      \* raw_df of build_feature_matrix
    df,       \* df of build_feature_matrix
    invoked   \* the functions build_feature_matrix has called, in order

vars == <<pc, fn, arg, result, raw, df, invoked>>

----------------------------------------------------------------------------
(* Bounds of the model *)

MaxRows == 3

MaxDateRows == 3

MaxFiles == 2

----------------------------------------------------------------------------
(* Cells *)

Abs(x) == IF x < 0 THEN 0 - x ELSE x

RECURSIVE Gcd(_, _)
Gcd(a, b) == IF b = 0 THEN a ELSE Gcd(b, a % b)

Num(x) == [k |-> "num", n |-> x, d |-> 1, s |-> ""]

\* the float n / d (d > 0), in lowest terms
Rat(x, y) ==
    LET g == Gcd(Abs(x), y)
    IN  [k |-> "num", n |-> x \div g, d |-> y \div g, s |-> ""]

\* the float sign(x) * sqrt(|x| / y) (y > 0), in lowest terms
Root(x, y) ==
    LET g == Gcd(Abs(x), y)
    IN  [k |-> "root", n |-> x \div g, d |-> y \div g, s |-> ""]

Date(x) == [k |-> "date", n |-> x, d |-> 1, s |-> ""]

Str(t) == [k |-> "str", n |-> 0, d |-> 1, s |-> t]

Cat(t) == [k |-> "cat", n |-> 0, d |-> 1, s |-> t]

Bool(b) == [k |-> "bool", n |-> IF b THEN 1 ELSE 0, d |-> 1, s |-> ""]

NA == [k |-> "na", n |-> 0, d |-> 1, s |-> ""]

IsNA(c) == c.k = "na"

\* collation order of the text values that are used as sort keys
StrOrd(t) ==
    CASE t = "A" -> 1
      [] t = "B" -> 2
      [] t = "X" -> 3
      [] t = "Y" -> 4
      [] OTHER -> 0

\* c1 < c2 for two non-missing cells of one column
CellLess(c1, c2) ==
    IF c1.k \in {"str", "cat"}
    THEN StrOrd(c1.s) < StrOrd(c2.s)
    ELSE c1.n * c2.d < c2.n * c1.d

----------------------------------------------------------------------------
(* Column names *)

DATE == <<"date">>
SHARES == <<"shares">>
PRICE == <<"price">>
VALUE == <<"value">>
TRANSACTION == <<"transaction">>
TICKER == <<"ticker">>
INSIDER == <<"insider">>
INSIDER_NAME == <<"insider", "_name">>
INSIDER_ID == <<"insider", "_id">>
REPORTING_OWNER == <<"reporting_", "owner">>
OWNER == <<"owner">>
RELATIONSHIP == <<"relationship">>
RELATIONSHIP_TEXT == <<"relationship", "_text">>
REMARKS == <<"remarks">>
TRADE_VALUE == <<"trade_", "value">>
IS_BUY == <<"is_buy">>
IS_SELL == <<"is_sell">>
INSIDER_ROLE == <<"insider", "_role">>
TRADE_VALUE_7D_MEAN == <<"trade_", "value", "_7d_mean">>
TRADE_VALUE_30D_MEAN == <<"trade_", "value", "_30d_mean">>
TRADE_VALUE_ZSCORE == <<"trade_", "value", "_zscore">>
TRADE_VALUE_PCT_RANK == <<"trade_", "value", "_pct_rank">>
UNUSUAL_VOLUME == <<"unusual_volume">>
YEAR == <<"year">>
MONTH == <<"month">>
DAY == <<"day">>
WEEKDAY == <<"weekday">>
DAYS_SINCE_LAST_TRADE == <<"days_since_last_trade">>

\* Python's `needle in name`
Contains(name, needle) ==
    \E i \in 0..(Len(name) - Len(needle)) :
        \A j \in 1..Len(needle) : name[i + j] = needle[j]

\* str.lower() of one token
LowerToken(t) ==
    CASE t = "Date" -> "date"
      [] t = "Ticker" -> "ticker"
      [] OTHER -> t

\* str.strip(): leading and trailing blanks removed
RECURSIVE Strip(_)
Strip(name) ==
    IF name = <<>> THEN name
    ELSE IF Head(name) = " " THEN Strip(Tail(name))
    ELSE IF name[Len(name)] = " " THEN Strip(SubSeq(name, 1, Len(name) - 1))
    ELSE name

\* col.strip().lower()
NormalizeName(name) ==
    LET s == Strip(name)
    IN  [i \in 1..Len(s) |-> LowerToken(s[i])]

----------------------------------------------------------------------------
(* DataFrames *)

Range(s) == {s[i] : i \in 1..Len(s)}

HasColumn(t, c) == c \in Range(t.columns)

\* the first column, in column order, that satisfies the test; <<>> if none
RECURSIVE FirstContaining(_, _)
FirstContaining(cols, needle) ==
    IF cols = <<>> THEN <<>>
    ELSE IF Contains(Head(cols), needle) THEN Head(cols)
    ELSE FirstContaining(Tail(cols), needle)

\* t[c] = cells: the column is replaced in place, or appended when new;
\* cells[i] is the cell of the row at position i
SetColumn(t, c, cells) ==
    [columns |-> IF HasColumn(t, c) THEN t.columns ELSE Append(t.columns, c),
     rows |-> [i \in 1..Len(t.rows) |->
                 [x \in (DOMAIN t.rows[i]) \cup {c} |->
                     IF x = c THEN cells[i] ELSE t.rows[i][x]]]]

RECURSIVE FilterSeq(_, _)
FilterSeq(s, keep) ==
    IF s = <<>> THEN <<>>
    ELSE IF Head(s) \in keep THEN <<Head(s)>> \o FilterSeq(Tail(s), keep)
    ELSE FilterSeq(Tail(s), keep)

\* the positions of s, in order, that are in `keep`
KeepPositions(s, keep) ==
    LET idx == FilterSeq([i \in 1..Len(s) |-> i], keep)
    IN  [i \in 1..Len(idx) |-> s[idx[i]]]

\* DataFrame.dropna(subset=cols)
DropNa(t, cols) ==
    [columns |-> t.columns,
     rows |-> KeepPositions(t.rows,
                 {i \in 1..Len(t.rows) : \A c \in cols : ~IsNA(t.rows[i][c])})]

\* DataFrame.drop(columns=cols)
DropColumns(t, cols) ==
    [columns |-> KeepPositions(t.columns,
                    {i \in 1..Len(t.columns) : t.columns[i] \notin cols}),
     rows |-> [i \in 1..Len(t.rows) |->
                 [x \in (DOMAIN t.rows[i]) \ cols |-> t.rows[i][x]]]]

\* row a sorts strictly before row b on the key columns `by` (lexicographic)
RECURSIVE RowLess(_, _, _)
RowLess(a, b, by) ==
    IF by = <<>> THEN FALSE
    ELSE IF CellLess(a[Head(by)], b[Head(by)]) THEN TRUE
    ELSE IF CellLess(b[Head(by)], a[Head(by)]) THEN FALSE
    ELSE RowLess(a, b, Tail(by))

\* r inserted after every row that does not sort strictly after it
RECURSIVE InsertStable(_, _, _)
InsertStable(sorted, r, by) ==
    IF sorted = <<>> THEN <<r>>
    ELSE IF RowLess(r, Head(sorted), by) THEN <<r>> \o sorted
    ELSE <<Head(sorted)>> \o InsertStable(Tail(sorted), r, by)

RECURSIVE SortRows(_, _)
SortRows(rows, by) ==
    IF rows = <<>> THEN <<>>
    ELSE InsertStable(SortRows(SubSeq(rows, 1, Len(rows) - 1), by),
                      rows[Len(rows)], by)

\* DataFrame.sort_values(by): with several keys pandas sorts with a stable
\* lexsort, so rows equal on all keys keep their input order
SortValues(t, by) == [columns |-> t.columns, rows |-> SortRows(t.rows, by)]

\* the columns renamed position by position (DataFrame.columns = names)
RenameColumns(t, names) ==
    [columns |-> names,
     rows |-> [i \in 1..Len(t.rows) |->
                 [x \in Range(names) |->
                     t.rows[i][t.columns[CHOOSE j \in 1..Len(names) : names[j] = x]]]]]

\* pd.DataFrame()
EmptyFrame == [columns |-> <<>>, rows |-> <<>>]

----------------------------------------------------------------------------
(* Objects.  A function body works on a frame [arg, cur, aliased]: `arg` is *)
(* the caller's table object, `cur` the object its local variable is bound *)
(* to, and `aliased` says that the two are one object.                     *)

\* local = df  (no copy: the mutation of DfCopy)
DfAlias(t) == [arg |-> t, cur |-> t, aliased |-> TRUE]

\* local = df.copy()
DfCopy(t) == [arg |-> t, cur |-> t, aliased |-> FALSE]

\* local[...] = ... / local.columns = ...: the object `cur` is changed in
\* place, which the caller sees when the two are one object
InPlace(fr, t) ==
    [arg |-> IF fr.aliased THEN t ELSE fr.arg, cur |-> t, aliased |-> fr.aliased]

\* local = local.method(...): the local variable is bound to a new object
Rebind(fr, t) == [arg |-> fr.arg, cur |-> t, aliased |-> FALSE]

\* a call's outcome: what the caller's object holds afterwards, and the
\* returned table or the raised error (with the local table as it stood)
Return(fr) ==
    [arg |-> fr.arg, status |-> "ok", error |-> "", table |-> fr.cur]

Raise(fr, e) ==
    [arg |-> fr.arg, status |-> "error", error |-> e, table |-> fr.cur]

----------------------------------------------------------------------------
(* Column lookup *)

\* a lookup that falls back on the first column instead of raising
GetDateColumnOrFirst(t) ==
    IF HasColumn(t, DATE) THEN DATE
    ELSE IF FirstContaining(t.columns, DATE) # <<>> THEN FirstContaining(t.columns, DATE)
    ELSE t.columns[1]

\* <<>> stands for the raised ValueError
_get_date_column(t) ==
    IF HasColumn(t, DATE) THEN DATE ELSE FirstContaining(t.columns, DATE)

\* <<>> stands for the raised ValueError
_get_transaction_column(t) ==
    IF HasColumn(t, TRANSACTION) THEN TRANSACTION
    ELSE FirstContaining(t.columns, TRANSACTION)

\* the first candidate present, in candidate order
RECURSIVE FirstPresent(_, _)
FirstPresent(candidates, t) ==
    IF candidates = <<>> THEN <<>>
    ELSE IF HasColumn(t, Head(candidates)) THEN Head(candidates)
    ELSE FirstPresent(Tail(candidates), t)

\* <<>> stands for None
_get_insider_column(t) ==
    LET exact == FirstPresent(<<INSIDER, INSIDER_NAME, REPORTING_OWNER, OWNER>>, t)
    IN  IF exact # <<>> THEN exact ELSE FirstContaining(t.columns, INSIDER)

----------------------------------------------------------------------------
(* clean_data *)

\* pd.to_numeric(errors="coerce") of one cell
ToNumeric(c) ==
    CASE c.k = "num" -> c
      [] c.k = "str" /\ c.s = "7" -> Num(7)
      [] OTHER -> NA

\* pd.to_datetime(errors="coerce") of one cell; day 1 is 2024-01-01
ToDatetime(c) ==
    CASE c.k = "date" -> c
      [] c.k = "str" /\ c.s = "2024-01-01" -> Date(1)
      [] c.k = "str" /\ c.s = "2024-01-03" -> Date(3)
      [] OTHER -> NA

\* astype(str).str.strip().str.title() of one cell
StripTitle(c) ==
    CASE c.k = "na" -> Str("Nan")
      [] c.s \in {"buy", "BUY", " Buy "} -> Str("Buy")
      [] c.s \in {"sale", " Sale ", "SALE"} -> Str("Sale")
      [] c.s \in {"gift", "Gift"} -> Str("Gift")
      [] OTHER -> Str(c.s)

RECURSIVE CoerceNumeric(_, _)
CoerceNumeric(t, cols) ==
    IF cols = <<>> THEN t
    ELSE IF HasColumn(t, Head(cols))
         THEN CoerceNumeric(SetColumn(t, Head(cols),
                           [i \in 1..Len(t.rows) |-> ToNumeric(t.rows[i][Head(cols)])]),
                       Tail(cols))
         ELSE CoerceNumeric(t, Tail(cols))

RECURSIVE CoerceDates(_, _)
CoerceDates(t, cols) ==
    IF cols = <<>> THEN t
    ELSE IF Contains(Head(cols), DATE)
         THEN CoerceDates(SetColumn(t, Head(cols),
                         [i \in 1..Len(t.rows) |-> ToDatetime(t.rows[i][Head(cols)])]),
                     Tail(cols))
         ELSE CoerceDates(t, Tail(cols))

\* cleaned[cleaned[col].isin(["Buy", "Sale"])]
KeepBuySale(t, c) ==
    [columns |-> t.columns,
     rows |-> KeepPositions(t.rows,
                 {i \in 1..Len(t.rows) : t.rows[i][c].s \in {"Buy", "Sale"}})]

clean_data(t) ==
    LET f0 == DfCopy(t)
        f1 == InPlace(f0, RenameColumns(f0.cur,
                  [i \in 1..Len(f0.cur.columns) |-> NormalizeName(f0.cur.columns[i])]))
        essential == {c \in {DATE, SHARES, PRICE} : HasColumn(f1.cur, c)}
        f2 == Rebind(f1, DropNa(f1.cur, essential))
        f3 == InPlace(f2, CoerceNumeric(f2.cur, <<SHARES, PRICE, VALUE>>))
        f4 == InPlace(f3, CoerceDates(f3.cur, f3.cur.columns))
        f5 == Rebind(f4, DropNa(f4.cur, essential))
        transaction_col == _get_transaction_column(f5.cur)
        f6 == InPlace(f5, SetColumn(f5.cur, transaction_col,
                  [i \in 1..Len(f5.cur.rows) |->
                      StripTitle(f5.cur.rows[i][transaction_col])]))
        f7 == Rebind(f6, KeepBuySale(f6.cur, transaction_col))
    IN  IF Cardinality(essential) < 3 THEN Raise(f1, "ValueError")
        ELSE IF transaction_col = <<>> THEN Raise(f5, "ValueError")
        ELSE Return(Rebind(f7, f7.cur))

----------------------------------------------------------------------------
(* add_basic_features *)

\* the product of two float cells; NaN when either is missing
Mul(a, b) == IF IsNA(a) \/ IsNA(b) THEN NA ELSE Rat(a.n * b.n, a.d * b.d)

\* `keyword in str(text).lower()` for the relationship texts of the model
TextContains(text, keyword) ==
    CASE keyword = "ceo" -> text \in {"CEO", "CEO, Director"}
      [] keyword = "cfo" -> text \in {"CFO"}
      [] keyword = "director" -> text \in {"Director", "CEO, Director"}
      [] keyword = "officer" -> text \in {"Officer", "Chief Legal Officer"}
      [] OTHER -> FALSE

_extract_role(c) ==
    IF TextContains(c.s, "ceo") THEN Cat("CEO")
    ELSE IF TextContains(c.s, "cfo") THEN Cat("CFO")
    ELSE IF TextContains(c.s, "director") THEN Cat("Director")
    ELSE IF TextContains(c.s, "officer") THEN Cat("Officer")
    ELSE Cat("Other")

\* astype("category") of one cell
AsCategory(c) == IF c.k = "str" THEN Cat(c.s) ELSE c

\* the relationship column add_basic_features reads; <<>> stands for None
RelationshipColumn(t) ==
    IF HasColumn(t, RELATIONSHIP) THEN RELATIONSHIP
    ELSE FirstContaining(t.columns, RELATIONSHIP)

add_basic_features(t) ==
    LET f0 == DfCopy(t)
        transaction_col == _get_transaction_column(f0.cur)
        f1 == InPlace(f0, SetColumn(f0.cur, TRADE_VALUE,
                  [i \in 1..Len(f0.cur.rows) |->
                      Mul(f0.cur.rows[i][SHARES], f0.cur.rows[i][PRICE])]))
        f2 == InPlace(f1, SetColumn(f1.cur, IS_BUY,
                  [i \in 1..Len(f1.cur.rows) |->
                      Bool(f1.cur.rows[i][transaction_col].s = "Buy")]))
        f3 == InPlace(f2, SetColumn(f2.cur, IS_SELL,
                  [i \in 1..Len(f2.cur.rows) |->
                      Bool(f2.cur.rows[i][transaction_col].s = "Sale")]))
        relationship_col == RelationshipColumn(f3.cur)
        f4 == IF relationship_col # <<>>
              THEN InPlace(f3, SetColumn(f3.cur, INSIDER_ROLE,
                       [i \in 1..Len(f3.cur.rows) |->
                           _extract_role(f3.cur.rows[i][relationship_col])]))
              ELSE f3
        f5 == IF HasColumn(f4.cur, TICKER)
              THEN InPlace(f4, SetColumn(f4.cur, TICKER,
                       [i \in 1..Len(f4.cur.rows) |-> AsCategory(f4.cur.rows[i][TICKER])]))
              ELSE f4
    IN  IF transaction_col = <<>> THEN Raise(f0, "ValueError")
        ELSE IF ~HasColumn(f0.cur, SHARES) \/ ~HasColumn(f0.cur, PRICE)
        THEN Raise(f0, "KeyError")
        ELSE Return(f5)

----------------------------------------------------------------------------
(* add_statistical_features *)

\* rolling(window="7D")
Window7D == 7

\* rolling(window="30D")
Window30D == 30

\* quantile(0.95), in percent
Percentile == 95

RECURSIVE SumOver(_, _)
SumOver(f, S) ==
    IF S = {} THEN 0
    ELSE LET x == CHOOSE y \in S : TRUE
         IN  f[x] + SumOver(f, S \ {x})

\* the positions of the rows that groupby puts in the group of row i
GroupOf(rows, i, keys) ==
    {j \in 1..Len(rows) : \A c \in keys : rows[j][c].s = rows[i][c].s}

\* the positions rolling(window, on=date_col) gives the row at position i of
\* a group: pandas' variable window ends at the row itself (end = i + 1), so
\* it holds the rows of the group up to and including position i whose time
\* is later than t - window; a later row of the same time is not in it
RollingWindow(rows, i, date_col, window) ==
    {j \in GroupOf(rows, i, {TICKER}) :
        j <= i /\ rows[j][date_col].n > rows[i][date_col].n - window}

Values(rows) == [j \in 1..Len(rows) |-> rows[j][TRADE_VALUE].n]

Squares(rows) ==
    [j \in 1..Len(rows) |-> rows[j][TRADE_VALUE].n * rows[j][TRADE_VALUE].n]

\* .rolling(...)["trade_value"].mean() at position i (min_periods is 1)
RollingMean(rows, i, date_col, window) ==
    LET w == RollingWindow(rows, i, date_col, window)
    IN  Rat(SumOver(Values(rows), w), Cardinality(w))

\* n * (n - 1) times the sample variance (ddof = 1) of the window, n >= 2
ScaledVariance(rows, w) ==
    Cardinality(w) * SumOver(Squares(rows), w)
        - SumOver(Values(rows), w) * SumOver(Values(rows), w)

\* (trade_value - rolling_mean) / rolling_std at position i, where
\* rolling_std is NaN for a window of one point and replace(0, pd.NA) makes
\* a zero deviation missing.  With n points of sum S and scaled variance V,
\* x - mean = (n x - S) / n and std = sqrt(V / (n (n - 1))), so that
\* z = sign(n x - S) * sqrt((n x - S)^2 (n - 1) / (n V))
ZScore(rows, i, date_col) ==
    LET w == RollingWindow(rows, i, date_col, Window30D)
        n == Cardinality(w)
        v == ScaledVariance(rows, w)
        a == n * rows[i][TRADE_VALUE].n - SumOver(Values(rows), w)
    IN  IF n < 2 \/ v = 0 THEN NA
        ELSE Root((IF a < 0 THEN 0 - 1 ELSE 1) * a * a * (n - 1), n * v)

\* rank(method="min", pct=True)
PctRankMin(rows, i) ==
    LET g == GroupOf(rows, i, {TICKER})
        less == {j \in g : rows[j][TRADE_VALUE].n < rows[i][TRADE_VALUE].n}
    IN  Rat(Cardinality(less) + 1, Cardinality(g))

\* groupby("ticker")["trade_value"].rank(pct=True): the average rank of the
\* rows tied with row i, over the size of the group
PctRank(rows, i) ==
    LET g == GroupOf(rows, i, {TICKER})
        less == {j \in g : rows[j][TRADE_VALUE].n < rows[i][TRADE_VALUE].n}
        equal == {j \in g : rows[j][TRADE_VALUE].n = rows[i][TRADE_VALUE].n}
    IN  Rat(2 * Cardinality(less) + Cardinality(equal) + 1, 2 * Cardinality(g))

\* the values of a set of positions in ascending order
RECURSIVE SortedValues(_, _)
SortedValues(rows, S) ==
    IF S = {} THEN <<>>
    ELSE LET m == CHOOSE j \in S :
                      \A l \in S : rows[j][TRADE_VALUE].n <= rows[l][TRADE_VALUE].n
         IN  <<rows[m][TRADE_VALUE].n>> \o SortedValues(rows, S \ {m})

\* 100 * x.quantile(0.95) of the group of row i: linear interpolation at
\* the position 0.95 * (N - 1) of the ascending values
Quantile95(rows, i) ==
    LET v == SortedValues(rows, GroupOf(rows, i, {TICKER}))
        h == Percentile * (Len(v) - 1)
        lo == (h \div 100) + 1
        hi == IF lo < Len(v) THEN lo + 1 ELSE lo
    IN  100 * v[lo] + (h % 100) * (v[hi] - v[lo])

\* trade_value >= percentile_95
UnusualNonStrict(rows, i) ==
    IF 100 * rows[i][TRADE_VALUE].n >= Quantile95(rows, i) THEN Num(1) ELSE Num(0)

\* (trade_value > percentile_95).astype(int)
Unusual(rows, i) ==
    IF 100 * rows[i][TRADE_VALUE].n > Quantile95(rows, i) THEN Num(1) ELSE Num(0)

add_statistical_features(t) ==
    LET f0 == DfCopy(t)
        date_col == _get_date_column(f0.cur)
        f1 == Rebind(f0, SortValues(f0.cur, <<TICKER, date_col>>))
        r == f1.cur.rows
        f2 == InPlace(f1, SetColumn(f1.cur, TRADE_VALUE_7D_MEAN,
                  [i \in 1..Len(r) |-> RollingMean(r, i, date_col, Window7D)]))
        f3 == InPlace(f2, SetColumn(f2.cur, TRADE_VALUE_30D_MEAN,
                  [i \in 1..Len(r) |-> RollingMean(r, i, date_col, Window30D)]))
        f4 == InPlace(f3, SetColumn(f3.cur, TRADE_VALUE_ZSCORE,
                  [i \in 1..Len(r) |-> ZScore(r, i, date_col)]))
        f5 == InPlace(f4, SetColumn(f4.cur, TRADE_VALUE_PCT_RANK,
                  [i \in 1..Len(r) |-> PctRank(r, i)]))
        f6 == InPlace(f5, SetColumn(f5.cur, UNUSUAL_VOLUME,
                  [i \in 1..Len(r) |-> Unusual(r, i)]))
    IN  IF date_col = <<>> THEN Raise(f0, "ValueError")
        ELSE IF _get_transaction_column(f0.cur) = <<>> THEN Raise(f0, "ValueError")
        ELSE IF ~HasColumn(f0.cur, TICKER) THEN Raise(f0, "KeyError")
        ELSE IF ~HasColumn(f1.cur, TRADE_VALUE) THEN Raise(f1, "KeyError")
        ELSE Return(f6)

----------------------------------------------------------------------------
(* add_date_features *)

\* the lengths of the months of 2024, the year the model's days are in
MonthLengths == <<31, 29, 31, 30, 31, 30, 31, 31, 30, 31, 30, 31>>

\* <<month, day of month>> of the n-th day of the year, counted from month m
RECURSIVE MonthAndDay(_, _)
MonthAndDay(n, m) ==
    IF n <= MonthLengths[m] THEN <<m, n>>
    ELSE MonthAndDay(n - MonthLengths[m], m + 1)

\* .dt.year, .dt.month, .dt.day, .dt.weekday of one cell (day 1 is Monday
\* 2024-01-01; weekday 0 is Monday)
DtYear(c) == IF IsNA(c) THEN NA ELSE Num(2024)

DtMonth(c) == IF IsNA(c) THEN NA ELSE Num(MonthAndDay(c.n, 1)[1])

DtDay(c) == IF IsNA(c) THEN NA ELSE Num(MonthAndDay(c.n, 1)[2])

DtWeekday(c) == IF IsNA(c) THEN NA ELSE Num((c.n - 1) % 7)

\* the position before i of the previous row of the group `keys` of row i,
\* 0 when row i is the first of its group
PreviousInGroup(rows, i, keys) ==
    LET before == {j \in GroupOf(rows, i, keys) : j < i}
    IN  IF before = {} THEN 0 ELSE CHOOSE j \in before : \A l \in before : l <= j

\* groupby(keys)[date_col].diff().dt.days at position i
GroupDiffDays(rows, i, keys, date_col) ==
    LET p == PreviousInGroup(rows, i, keys)
    IN  IF p = 0 THEN NA ELSE Num(rows[i][date_col].n - rows[p][date_col].n)

\* the gap column grouped by the ticker alone (the insider left out)
DaysSinceLastTradeByTicker(rows, i, insider_col, date_col) ==
    GroupDiffDays(rows, i, {TICKER}, date_col)

\* the gap column of add_date_features at position i of the sorted rows
DaysSinceLastTrade(rows, i, insider_col, date_col) ==
    GroupDiffDays(rows, i, {insider_col, TICKER}, date_col)

add_date_features(t) ==
    LET f0 == DfCopy(t)
        date_col == _get_date_column(f0.cur)
        insider_col == _get_insider_column(f0.cur)
        f1 == InPlace(f0, SetColumn(f0.cur, YEAR,
                  [i \in 1..Len(f0.cur.rows) |-> DtYear(f0.cur.rows[i][date_col])]))
        f2 == InPlace(f1, SetColumn(f1.cur, MONTH,
                  [i \in 1..Len(f1.cur.rows) |-> DtMonth(f1.cur.rows[i][date_col])]))
        f3 == InPlace(f2, SetColumn(f2.cur, DAY,
                  [i \in 1..Len(f2.cur.rows) |-> DtDay(f2.cur.rows[i][date_col])]))
        f4 == InPlace(f3, SetColumn(f3.cur, WEEKDAY,
                  [i \in 1..Len(f3.cur.rows) |-> DtWeekday(f3.cur.rows[i][date_col])]))
        f5 == Rebind(f4, SortValues(f4.cur, <<insider_col, TICKER, date_col>>))
        f6 == InPlace(f5, SetColumn(f5.cur, DAYS_SINCE_LAST_TRADE,
                  [i \in 1..Len(f5.cur.rows) |->
                      DaysSinceLastTrade(f5.cur.rows, i, insider_col, date_col)]))
        f7 == InPlace(f4, SetColumn(f4.cur, DAYS_SINCE_LAST_TRADE,
                  [i \in 1..Len(f4.cur.rows) |-> NA]))
    IN  IF date_col = <<>> THEN Raise(f0, "ValueError")
        ELSE IF insider_col # <<>> /\ HasColumn(f4.cur, TICKER) THEN Return(f6)
        ELSE Return(f7)

----------------------------------------------------------------------------
(* build_feature_matrix *)

\* the columns build_feature_matrix drops when present
drop_columns ==
    <<RELATIONSHIP, INSIDER, INSIDER_NAME, REPORTING_OWNER, OWNER, REMARKS>>

\* raw_df is None or raw_df.empty: no row or no column
IsEmpty(t) == Len(t.rows) = 0 \/ Len(t.columns) = 0

\* lines 209-219: the listed columns that exist are dropped
PruneColumns(t) ==
    LET existing_drop_cols == Range(drop_columns) \cap Range(t.columns)
    IN  IF existing_drop_cols # {} THEN DropColumns(t, existing_drop_cols) ELSE t

----------------------------------------------------------------------------
(* load_insider_csvs *)

\* the columns of a, then the columns of b that a lacks
UnionColumns(a, b) ==
    a \o KeepPositions(b, {i \in 1..Len(b) : b[i] \notin Range(a)})

\* pd.concat([a, b], ignore_index=True): union of the columns, NaN where a
\* frame lacks a column
Concat(a, b) ==
    LET cols == UnionColumns(a.columns, b.columns)
        all == a.rows \o b.rows
    IN  [columns |-> cols,
         rows |-> [i \in 1..Len(all) |->
                     [x \in Range(cols) |->
                         IF x \in DOMAIN all[i] THEN all[i][x] ELSE NA]]]

RECURSIVE ConcatAll(_)
ConcatAll(frames) ==
    IF Len(frames) = 1 THEN frames[1]
    ELSE Concat(ConcatAll(SubSeq(frames, 1, Len(frames) - 1)), frames[Len(frames)])

\* `frames` are the frames read from the directory's CSV files, in the
\* sorted order of their paths
load_insider_csvs(frames) ==
    IF frames = <<>> THEN EmptyFrame ELSE ConcatAll(frames)

----------------------------------------------------------------------------
(* Inputs *)

SeqsUpTo(S, n) == UNION {[1..k -> S] : k \in 1..n}

\* tables handed to add_statistical_features: trades of two tickers, one,
\* Window7D and Window30D days apart or on the same day
StatRowSet ==
    {[x \in {TICKER, DATE, TRANSACTION, TRADE_VALUE} |->
        CASE x = TICKER -> Cat(tk)
          [] x = DATE -> Date(day)
          [] x = TRANSACTION -> Str("Buy")
          [] x = TRADE_VALUE -> Num(v)] :
     tk \in {"X", "Y"}, day \in {1, 1 + Window7D, 1 + Window30D}, v \in {10, 30}}

StatFull ==
    {[columns |-> <<TICKER, DATE, TRANSACTION, TRADE_VALUE>>, rows |-> r] :
     r \in SeqsUpTo(StatRowSet, MaxRows)}

\* ... and the shorter ones of these tables with one column absent
StatTables ==
    StatFull
    \cup {DropColumns(t, {c}) : t \in {u \in StatFull : Len(u.rows) < MaxRows},
                                c \in {TICKER, DATE, TRANSACTION}}

\* tables handed to add_date_features: trades of two insiders in two tickers
DateRowSet ==
    {[x \in {INSIDER, TICKER, DATE} |->
        CASE x = INSIDER -> Str(who)
          [] x = TICKER -> Cat(tk)
          [] x = DATE -> Date(day)] :
     who \in {"A", "B"}, tk \in {"X", "Y"}, day \in {1, 5, 10}}

DateFull ==
    {[columns |-> <<INSIDER, TICKER, DATE>>, rows |-> r] :
     r \in SeqsUpTo(DateRowSet, MaxDateRows)}

\* ... and the shorter ones of these tables with the insider column under a
\* name only the substring search finds, or with one column absent
DateTables ==
    LET shorter == {u \in DateFull : Len(u.rows) < MaxDateRows}
    IN  DateFull
        \cup {RenameColumns(t, <<INSIDER_ID, TICKER, DATE>>) : t \in shorter}
        \cup {DropColumns(t, {c}) : t \in shorter, c \in {INSIDER, TICKER, DATE}}

\* the rows of the CSV files: clean trades, a transaction that is neither
\* buy nor sale, an unparseable date, a missing date, a non-numeric share
\* count
RawRow(date, shares, transaction, ticker, insider, relationship) ==
    [x \in {DATE, SHARES, PRICE, TRANSACTION, TICKER, INSIDER, RELATIONSHIP, REMARKS} |->
        CASE x = DATE -> date
          [] x = SHARES -> shares
          [] x = PRICE -> Num(5)
          [] x = TRANSACTION -> Str(transaction)
          [] x = TICKER -> Str(ticker)
          [] x = INSIDER -> Str(insider)
          [] x = RELATIONSHIP -> Str(relationship)
          [] x = REMARKS -> Str("10b5-1 plan")]

RawRowSet ==
    {RawRow(Str("2024-01-01"), Num(2), "buy", "X", "A", "CEO, Director"),
     RawRow(Str("2024-01-03"), Num(6), " Sale ", "X", "A", "CEO, Director"),
     RawRow(Str("2024-01-03"), Str("7"), "BUY", "Y", "B", "Chief Legal Officer"),
     RawRow(Str("2024-01-01"), Num(2), "Gift", "X", "B", "10% Owner"),
     RawRow(Str("n/a"), Num(2), "buy", "X", "A", "CFO"),
     RawRow(NA, Num(2), "buy", "X", "A", "Director"),
     RawRow(Str("2024-01-01"), Str("abc"), "buy", "X", "A", "Director")}

\* the headers of the CSV files: each column as <<name in the file, field>>
RawSchemas ==
    {<< <<<<"Date">>, DATE>>, <<SHARES, SHARES>>, <<PRICE, PRICE>>,
        <<TRANSACTION, TRANSACTION>>, <<<<" ", "Ticker">>, TICKER>> >>,
     << <<DATE, DATE>>, <<SHARES, SHARES>>, <<PRICE, PRICE>>,
        <<TRANSACTION, TRANSACTION>>, <<TICKER, TICKER>>, <<INSIDER, INSIDER>>,
        <<RELATIONSHIP, RELATIONSHIP>>, <<REMARKS, REMARKS>> >>,
     << <<DATE, DATE>>, <<SHARES, SHARES>>, <<PRICE, PRICE>>,
        <<TRANSACTION, TRANSACTION>>, <<TICKER, TICKER>>, <<INSIDER_ID, INSIDER>>,
        <<RELATIONSHIP_TEXT, RELATIONSHIP>> >>,
     << <<DATE, DATE>>, <<SHARES, SHARES>>,
        <<TRANSACTION, TRANSACTION>>, <<TICKER, TICKER>> >>,
     << <<DATE, DATE>>, <<SHARES, SHARES>>, <<PRICE, PRICE>>,
        <<TICKER, TICKER>> >>,
     << <<DATE, DATE>>, <<SHARES, SHARES>>, <<PRICE, PRICE>>,
        <<TRANSACTION, TRANSACTION>>, <<INSIDER, INSIDER>> >>}

\* the frame pd.read_csv gives for a file with header `schema` and `rows`
CsvFrame(schema, rows) ==
    [columns |-> [j \in 1..Len(schema) |-> schema[j][1]],
     rows |-> [i \in 1..Len(rows) |->
                 [x \in {schema[j][1] : j \in 1..Len(schema)} |->
                     rows[i][schema[CHOOSE j \in 1..Len(schema) : schema[j][1] = x][2]]]]]

\* the frames of the files of a directory: at most MaxFiles files of one
\* header, each with no row or one row
FileLists ==
    UNION {[1..k -> {CsvFrame(schema, <<>>)}
                      \cup {CsvFrame(schema, <<r>>) : r \in RawRowSet}] :
           k \in 0..MaxFiles, schema \in RawSchemas}

\* the tables load_insider_csvs can give, also handed to clean_data
RawTables == {load_insider_csvs(frames) : frames \in FileLists}

\* the tables clean_data returns, handed to add_basic_features
CleanTables ==
    {clean_data(t).table : t \in {u \in RawTables : clean_data(u).status = "ok"}}

----------------------------------------------------------------------------
(* The state machine: one call of one of the four stages on a table, or one *)
(* run of build_feature_matrix, statement by statement.                    *)

NoResult == [arg |-> EmptyFrame, status |-> "none", error |-> "", table |-> EmptyFrame]

Init ==
    /\ pc = "idle"
    /\ fn = ""
    /\ arg = EmptyFrame
    /\ result = NoResult
    /\ raw = EmptyFrame
    /\ df = EmptyFrame
    /\ invoked = <<>>

CallCleanData ==
    /\ pc = "idle"
    /\ \E t \in RawTables :
        /\ arg' = t
        /\ result' = clean_data(t)
    /\ fn' = "clean_data"
    /\ pc' = "returned"
    /\ UNCHANGED <<raw, df, invoked>>

CallAddBasicFeatures ==
    /\ pc = "idle"
    /\ \E t \in CleanTables :
        /\ arg' = t
        /\ result' = add_basic_features(t)
    /\ fn' = "add_basic_features"
    /\ pc' = "returned"
    /\ UNCHANGED <<raw, df, invoked>>

CallAddStatisticalFeatures ==
    /\ pc = "idle"
    /\ \E t \in StatTables :
        /\ arg' = t
        /\ result' = add_statistical_features(t)
    /\ fn' = "add_statistical_features"
    /\ pc' = "returned"
    /\ UNCHANGED <<raw, df, invoked>>

CallAddDateFeatures ==
    /\ pc = "idle"
    /\ \E t \in DateTables :
        /\ arg' = t
        /\ result' = add_date_features(t)
    /\ fn' = "add_date_features"
    /\ pc' = "returned"
    /\ UNCHANGED <<raw, df, invoked>>

\* line 200: raw_df = load_insider_csvs()
BuildLoad ==
    /\ pc = "idle"
    /\ \E frames \in FileLists : raw' = load_insider_csvs(frames)
    /\ fn' = "build_feature_matrix"
    /\ pc' = "loaded"
    /\ UNCHANGED <<arg, result, df, invoked>>

\* lines 201-202: an empty raw table is returned as it is
BuildReturnEmpty ==
    /\ pc = "loaded"
    /\ IsEmpty(raw)
    /\ result' = [arg |-> raw, status |-> "ok", error |-> "", table |-> raw]
    /\ pc' = "finished"
    /\ UNCHANGED <<fn, arg, raw, df, invoked>>

\* one stage of lines 204-207: df = stage(df); an error ends the run
Stage(from, to, name, out) ==
    /\ pc = from
    /\ invoked' = Append(invoked, name)
    /\ IF out.status = "ok"
       THEN /\ df' = out.table
            /\ pc' = to
            /\ UNCHANGED result
       ELSE /\ result' = [arg |-> raw, status |-> "error", error |-> out.error,
                          table |-> EmptyFrame]
            /\ pc' = "finished"
            /\ UNCHANGED df
    /\ UNCHANGED <<fn, arg, raw>>

\* line 204
BuildClean ==
    /\ ~IsEmpty(raw)
    /\ Stage("loaded", "cleaned", "clean_data", clean_data(raw))

\* line 205
BuildBasic == Stage("cleaned", "basic", "add_basic_features", add_basic_features(df))

\* line 206
BuildStatistical ==
    Stage("basic", "statistical", "add_statistical_features",
          add_statistical_features(df))

\* line 207
BuildDate == Stage("statistical", "dated", "add_date_features", add_date_features(df))

\* lines 209-221
BuildPrune ==
    /\ pc = "dated"
    /\ df' = PruneColumns(df)
    /\ result' = [arg |-> raw, status |-> "ok", error |-> "", table |-> df']
    /\ pc' = "finished"
    /\ UNCHANGED <<fn, arg, raw, invoked>>

Next ==
    \/ CallCleanData
    \/ CallAddBasicFeatures
    \/ CallAddStatisticalFeatures
    \/ CallAddDateFeatures
    \/ BuildLoad
    \/ BuildReturnEmpty
    \/ BuildClean
    \/ BuildBasic
    \/ BuildStatistical
    \/ BuildDate
    \/ BuildPrune

Spec == Init /\ [][Next]_vars

----------------------------------------------------------------------------
(* Claims *)

\* a single call of f has ended
Returned(f) == pc = "returned" /\ fn = f

\* a single call of f has returned a table
ReturnedTable(f) == Returned(f) /\ result.status = "ok"

\* the outcome of a single call of f on t
Outcome(f, t) ==
    CASE f = "clean_data" -> clean_data(t)
      [] f = "add_basic_features" -> add_basic_features(t)
      [] f = "add_statistical_features" -> add_statistical_features(t)
      [] f = "add_date_features" -> add_date_features(t)

\* t with its rows in the order p (a permutation of the positions)
Permuted(t, p) == [columns |-> t.columns, rows |-> [i \in 1..Len(t.rows) |-> t.rows[p[i]]]]

PermutationsOf(n) == {p \in [1..n -> 1..n] : \A i, j \in 1..n : p[i] = p[j] => i = j}

\* C1: for every permutation T' of the rows of the table T handed to
\* add_statistical_features or add_date_features, the call on T' has the
\* outcome of the call on T: the same rows in the same order with the same
\* derived values
C1_PermutationDeterminism ==
    (Returned("add_statistical_features") \/ Returned("add_date_features")) =>
        \A p \in PermutationsOf(Len(arg.rows)) :
            LET other == Outcome(fn, Permuted(arg, p))
            IN  /\ other.status = result.status
                /\ result.status = "ok" => other.table = result.table

\* the rows of the ticker of row i whose time lies in (t - window, t]
WindowByTime(rows, i, date_col, window) ==
    {j \in 1..Len(rows) :
        /\ rows[j][TICKER].s = rows[i][TICKER].s
        /\ rows[j][date_col].n <= rows[i][date_col].n
        /\ rows[j][date_col].n > rows[i][date_col].n - window}

MeanByTime(rows, i, date_col, window) ==
    LET w == WindowByTime(rows, i, date_col, window)
    IN  Rat(SumOver(Values(rows), w), Cardinality(w))

\* C2: every row's trade_value_7d_mean and trade_value_30d_mean is the mean
\* of trade_value over all rows of its ticker whose time lies in
\* (t - W, t], the rows of the same time included
C2_TrailingWindowMean ==
    ReturnedTable("add_statistical_features") =>
        LET r == result.table.rows
            date_col == _get_date_column(arg)
        IN  \A i \in 1..Len(r) :
                /\ r[i][TRADE_VALUE_7D_MEAN] = MeanByTime(r, i, date_col, Window7D)
                /\ r[i][TRADE_VALUE_30D_MEAN] = MeanByTime(r, i, date_col, Window30D)

\* the values of the window are not all the same (so it has two points)
Varies(rows, w) ==
    \E j, l \in w : rows[j][TRADE_VALUE].n # rows[l][TRADE_VALUE].n

\* (x - mean) / sample standard deviation of row i over the window w
ZScoreOver(rows, i, w) ==
    LET n == Cardinality(w)
        a == n * rows[i][TRADE_VALUE].n - SumOver(Values(rows), w)
    IN  Root((IF a < 0 THEN 0 - 1 ELSE 1) * a * a * (n - 1), n * ScaledVariance(rows, w))

\* C3: a row whose 30-day trailing window (the rows of its ticker in
\* (t - 30, t]) has one point, or points of one value only, has a missing
\* trade_value_zscore; every other row has (trade_value - window mean) /
\* window sample standard deviation
C3_ZScoreDegeneracy ==
    ReturnedTable("add_statistical_features") =>
        LET r == result.table.rows
            date_col == _get_date_column(arg)
        IN  \A i \in 1..Len(r) :
                LET w == WindowByTime(r, i, date_col, Window30D)
                IN  IF Varies(r, w)
                    THEN r[i][TRADE_VALUE_ZSCORE] = ZScoreOver(r, i, w)
                    ELSE IsNA(r[i][TRADE_VALUE_ZSCORE])

\* row i has the largest trade_value of its ticker
IsGroupMax(rows, i) ==
    \A j \in 1..Len(rows) :
        rows[j][TICKER].s = rows[i][TICKER].s =>
            rows[j][TRADE_VALUE].n <= rows[i][TRADE_VALUE].n

\* 0 < c <= 1
InUnitInterval(c) == c.k = "num" /\ 0 < c.n /\ c.n <= c.d

\* C4 as stated: every row has 0 < trade_value_pct_rank <= 1 and every row
\* with the largest trade_value of its ticker has rank 1, ties included
C4_MaxRankIsOne ==
    ReturnedTable("add_statistical_features") =>
        LET r == result.table.rows
        IN  \A i \in 1..Len(r) :
                /\ InUnitInterval(r[i][TRADE_VALUE_PCT_RANK])
                /\ IsGroupMax(r, i) => r[i][TRADE_VALUE_PCT_RANK] = Num(1)

\* C4 as amended: every row has 0 < trade_value_pct_rank <= 1, and a row
\* with the largest trade_value of its ticker, tied with k rows (itself
\* included) in a group of N rows, has rank 1 - (k - 1) / (2 N): 1 exactly
\* when the maximum is not tied
C4_MaxRankAverage ==
    ReturnedTable("add_statistical_features") =>
        LET r == result.table.rows
        IN  \A i \in 1..Len(r) :
                LET N == Cardinality({j \in 1..Len(r) : r[j][TICKER].s = r[i][TICKER].s})
                    k == Cardinality({j \in 1..Len(r) :
                            /\ r[j][TICKER].s = r[i][TICKER].s
                            /\ r[j][TRADE_VALUE].n = r[i][TRADE_VALUE].n})
                IN  /\ InUnitInterval(r[i][TRADE_VALUE_PCT_RANK])
                    /\ IsGroupMax(r, i) =>
                          /\ r[i][TRADE_VALUE_PCT_RANK] = Rat(2 * N - k + 1, 2 * N)
                          /\ (r[i][TRADE_VALUE_PCT_RANK] = Num(1)) <=> (k = 1)

\* two rows of one ticker tie for its maximum and rank below 1, while the
\* untied maximum of the other ticker ranks 1
C4_Witness ==
    /\ ReturnedTable("add_statistical_features")
    /\ LET r == result.table.rows
       IN  \E i, j, l \in 1..Len(r) :
               /\ i # j
               /\ r[i][TICKER].s = r[j][TICKER].s
               /\ r[i][TRADE_VALUE].n = r[j][TRADE_VALUE].n
               /\ IsGroupMax(r, i)
               /\ r[i][TRADE_VALUE_PCT_RANK] = Rat(3, 4)
               /\ r[l][TICKER].s # r[i][TICKER].s
               /\ r[l][TRADE_VALUE_PCT_RANK] = Num(1)

\* the k-th smallest trade_value of the ticker of row i
OrderStatistic(rows, i, k) ==
    LET g == {j \in 1..Len(rows) : rows[j][TICKER].s = rows[i][TICKER].s}
        m == CHOOSE j \in g :
                 /\ Cardinality({l \in g : rows[l][TRADE_VALUE].n < rows[j][TRADE_VALUE].n}) < k
                 /\ Cardinality({l \in g : rows[l][TRADE_VALUE].n <= rows[j][TRADE_VALUE].n}) >= k
    IN  rows[m][TRADE_VALUE].n

\* x exceeds the 95th percentile of the ticker of row i: with N rows the
\* percentile lies at position 1 + 0.95 (N - 1) of the order statistics,
\* between which it is interpolated linearly
ExceedsPercentile(x, rows, i) ==
    LET N == Cardinality({j \in 1..Len(rows) : rows[j][TICKER].s = rows[i][TICKER].s})
        whole == (Percentile * (N - 1)) \div 100
        part == (Percentile * (N - 1)) % 100
        below == OrderStatistic(rows, i, whole + 1)
        above == IF part = 0 THEN below ELSE OrderStatistic(rows, i, whole + 2)
    IN  100 * x > 100 * below + part * (above - below)

\* C5: unusual_volume is 1 exactly for the rows whose trade_value exceeds
\* the 95th percentile of their ticker and 0 for the others; a ticker whose
\* rows all have one trade_value, or that has a single row, has no flagged
\* row
C5_UnusualVolume ==
    ReturnedTable("add_statistical_features") =>
        LET r == result.table.rows
        IN  \A i \in 1..Len(r) :
                /\ r[i][UNUSUAL_VOLUME] =
                      IF ExceedsPercentile(r[i][TRADE_VALUE].n, r, i) THEN Num(1) ELSE Num(0)
                /\ ~Varies(r, {j \in 1..Len(r) : r[j][TICKER].s = r[i][TICKER].s}) =>
                      r[i][UNUSUAL_VOLUME] = Num(0)

\* a ticker of two rows, one flagged and one not, beside a ticker of a single
\* row, which is not flagged
C5_Witness ==
    /\ ReturnedTable("add_statistical_features")
    /\ LET r == result.table.rows
       IN  /\ Len(r) = 3
           /\ \E i, j \in 1..3 :
                  /\ r[i][TICKER].s = r[j][TICKER].s
                  /\ r[i][UNUSUAL_VOLUME] = Num(1)
                  /\ r[j][UNUSUAL_VOLUME] = Num(0)
           /\ \E i \in 1..3 :
                  /\ \A j \in 1..3 : r[j][TICKER].s = r[i][TICKER].s => j = i
                  /\ r[i][UNUSUAL_VOLUME] = Num(0)

\* the positions of the rows of (who, tk) in a table, in table order
PairPositions(t, insider_col, who, tk) ==
    FilterSeq([i \in 1..Len(t.rows) |-> i],
              {i \in 1..Len(t.rows) :
                  t.rows[i][insider_col].s = who /\ t.rows[i][TICKER].s = tk})

\* the days_since_last_trade of the rows of (who, tk), in table order
GapsOf(t, insider_col, who, tk) ==
    LET idx == PairPositions(t, insider_col, who, tk)
    IN  [k \in 1..Len(idx) |-> t.rows[idx[k]][DAYS_SINCE_LAST_TRADE]]

\* the rows of (who, tk) alone
OnlyPair(t, insider_col, who, tk) ==
    LET idx == PairPositions(t, insider_col, who, tk)
    IN  [columns |-> t.columns, rows |-> [k \in 1..Len(idx) |-> t.rows[idx[k]]]]

\* C6: with an insider column and ticker present, the rows of each
\* (insider, ticker) pair come out in ascending time, the first with a
\* missing days_since_last_trade and each later one with the days since the
\* row of the pair before it; the values are those the pair gets when the
\* table holds no row of another insider or ticker
C6_GapComputation ==
    (/\ ReturnedTable("add_date_features")
     /\ _get_insider_column(arg) # <<>>
     /\ HasColumn(arg, TICKER)) =>
        LET insider_col == _get_insider_column(arg)
            date_col == _get_date_column(arg)
            out == result.table
        IN  \A i \in 1..Len(out.rows) :
                LET who == out.rows[i][insider_col].s
                    tk == out.rows[i][TICKER].s
                    idx == PairPositions(out, insider_col, who, tk)
                IN  /\ \A k \in 1..Len(idx) :
                          out.rows[idx[k]][DAYS_SINCE_LAST_TRADE] =
                              IF k = 1 THEN NA
                              ELSE Num(out.rows[idx[k]][date_col].n
                                         - out.rows[idx[k - 1]][date_col].n)
                    /\ \A k \in 2..Len(idx) :
                          out.rows[idx[k - 1]][date_col].n <= out.rows[idx[k]][date_col].n
                    /\ GapsOf(out, insider_col, who, tk) =
                          GapsOf(add_date_features(OnlyPair(arg, insider_col, who, tk)).table,
                                 insider_col, who, tk)

\* A trades X on days 1 and 10 and B trades X on day 5, handed over out of
\* order: A's gaps are missing and 9, B's is missing
C6_Witness ==
    /\ ReturnedTable("add_date_features")
    /\ HasColumn(arg, INSIDER)
    /\ HasColumn(arg, TICKER)
    /\ Len(arg.rows) = 3
    /\ arg.rows[1][INSIDER].s = "A" /\ arg.rows[1][DATE].n = 10
    /\ arg.rows[2][INSIDER].s = "B" /\ arg.rows[2][DATE].n = 5
    /\ arg.rows[3][INSIDER].s = "A" /\ arg.rows[3][DATE].n = 1
    /\ \A i \in 1..3 : arg.rows[i][TICKER].s = "X"
    /\ GapsOf(result.table, INSIDER, "A", "X") = <<NA, Num(9)>>
    /\ GapsOf(result.table, INSIDER, "B", "X") = <<NA>>

\* the call raised, and the function's table stood as it was handed over:
\* no column had been added to it
RaisedBeforeAnyColumn ==
    /\ result.status = "error"
    /\ result.table.columns = arg.columns

\* no column of the table is a date column
LacksDate(t) == \A c \in Range(t.columns) : ~Contains(c, DATE)

Finished == fn = "build_feature_matrix" /\ pc = "finished"

\* the table add_date_features was handed in this run
TableBeforeDates ==
    add_statistical_features(add_basic_features(clean_data(raw).table).table).table

\* C8: a non-empty table returned by build_feature_matrix has neither the
\* column _get_insider_column selected as the actor identifier nor the
\* column add_basic_features selected as the relationship field, nor remarks
C8_IdentityColumnsPruned ==
    (Finished /\ result.status = "ok" /\ Len(result.table.rows) > 0) =>
        /\ _get_insider_column(TableBeforeDates) \notin Range(result.table.columns)
        /\ RelationshipColumn(clean_data(raw).table) \notin Range(result.table.columns)
        /\ REMARKS \notin Range(result.table.columns)

\* the normalized table of this run has no row: nothing was loaded, or
\* clean_data dropped every row
NormalizedEmpty ==
    \/ IsEmpty(raw)
    \/ clean_data(raw).status = "ok" /\ Len(clean_data(raw).table.rows) = 0

\* C9: in a run of build_feature_matrix whose normalized table has no row,
\* add_statistical_features and add_date_features are never invoked and an
\* empty table is returned
C9_EmptyShortCircuit ==
    (fn = "build_feature_matrix" /\ pc # "loaded" /\ NormalizedEmpty) =>
        /\ "add_statistical_features" \notin Range(invoked)
        /\ "add_date_features" \notin Range(invoked)
        /\ pc = "finished" => result.status = "ok" /\ Len(result.table.rows) = 0

\* C10: after a call of clean_data, add_basic_features,
\* add_statistical_features or add_date_features, returned or raised, the
\* table passed in is as it was: columns, rows, row order and cells
C10_NoInputMutation == pc = "returned" => result.arg = arg

\* clean_data returned a table with renamed columns, coerced cells and
\* fewer rows than the table it was handed, which has kept all of them
C10_Witness ==
    /\ ReturnedTable("clean_data")
    /\ result.table.columns # arg.columns
    /\ Len(result.table.rows) = 1
    /\ Len(arg.rows) = 2
    /\ result.table.rows[1][SHARES] = Num(7)
    /\ result.arg.rows[2][SHARES] = Str("7")

====
